---- MODULE Spec2Model ----
(***************************************************************************)
(* A model of the NFL ELO page script (src/elo.js and its variants under   *)
(* src/unnamed): the three globals FINAL_RATINGS, SCHEDULE and CONFIG, the *)
(* handler runEloCalculation (load, fold of the completed games, publish), *)
(* the forecast handlers predictWeek and predictTeam, and the projected    *)
(* records of generateRecordsTable.                                        *)
(*                                                                         *)
(* Numbers.  A JavaScript number x is modelled by the integer nearest to   *)
(* x * Scale (fixed point, Scale units per 1.0), and every arithmetic      *)
(* operation rounds its result to the nearest unit, as an IEEE operation   *)
(* rounds to the nearest double.  Math.exp, Math.log and Math.pow are      *)
(* computed by range reduction and a truncated series in that arithmetic.  *)
(* Addition and subtraction are exact here, which they are not in doubles. *)
(* The week of a game is an integer and is kept unscaled.                  *)
(***************************************************************************)
EXTENDS Integers, Sequences, FiniteSets, Bags, TLC

\* ------------------------------------------------------------------------
\* Fixed-point arithmetic
\* ------------------------------------------------------------------------

\* Units per 1.0
Scale == 10000

\* F applied to the value of v, and to the values of v and w: the argument is
\* evaluated once and its value is passed on (an argument written out in the
\* body would be evaluated at every place it stands)
Bind(v, F(_)) == CHOOSE r \in {F(x) : x \in {v}} : TRUE
Bind2(v, w, F(_, _)) == CHOOSE r \in {F(x, y) : x \in {v}, y \in {w}} : TRUE

Abs(x) == IF x < 0 THEN -x ELSE x
Sign(x) == IF x < 0 THEN -1 ELSE 1
Max(a, b) == Bind2(a, b, LAMBDA x, y : IF x >= y THEN x ELSE y)
Min(a, b) == Bind2(a, b, LAMBDA x, y : IF x <= y THEN x ELSE y)

\* a / b for an integer b > 0, rounded to the nearest integer
RDiv(a, b) == Bind2(a, b, LAMBDA x, y : Sign(x) * ((2 * Abs(x) + y) \div (2 * y)))

\* The number n (an integer literal of the source) in fixed point
Real(n) == n * Scale

\* The decimal literal n / d of the source (2.2 is Lit(22, 10))
Lit(n, d) == RDiv(n * Scale, d)

\* x * y, rounded; the larger factor is split so that no product overflows
Mul(a, b) ==
  Bind2(a, b, LAMBDA x, y :
    Bind2(Max(Abs(x), Abs(y)), Min(Abs(x), Abs(y)), LAMBDA hi, lo :
      Sign(x) * Sign(y) * ((hi \div Scale) * lo + RDiv((hi % Scale) * lo, Scale))))

\* x / y, rounded (y # 0)
Div(a, b) == Bind(b, LAMBDA y : Sign(y) * RDiv(a * Scale, Abs(y)))

\* x / n for an integer literal n of the source
DivInt(a, n) == RDiv(a, n)

LN2 == Lit(6931, 10000)
LN10 == Lit(23026, 10000)

Pow2(k) == 2 ^ k

\* e^r for |r| <= ln(2)/2: 1 + r(1 + r/2(1 + r/3(1 + r/4(1 + r/5(1 + r/6)))))
ExpSeries(r0) ==
  Bind(r0, LAMBDA r :
    LET t6 == Scale + RDiv(r, 6)
        t5 == Scale + Mul(RDiv(r, 5), t6)
        t4 == Scale + Mul(RDiv(r, 4), t5)
        t3 == Scale + Mul(RDiv(r, 3), t4)
        t2 == Scale + Mul(RDiv(r, 2), t3)
    IN  Scale + Mul(r, t2))

\* Math.exp(y): e^y = 2^k * e^r with y = k ln 2 + r
Exp(y0) ==
  Bind(y0, LAMBDA y :
    Bind(RDiv(y, LN2), LAMBDA k :
      IF k >= 0 THEN ExpSeries(y - k * LN2) * Pow2(k)
      ELSE IF k < -30 THEN 0   \* below half a unit: the nearest unit is 0
      ELSE RDiv(ExpSeries(y - k * LN2), Pow2(-k))))

\* Math.pow(10, x)
Pow10(x) == Exp(Mul(x, LN10))

\* atanh(z) for 0 <= |z| <= 1/3: z(1 + z^2(1/3 + z^2(1/5 + z^2(1/7 + z^2/9))))
AtanhSeries(z0) ==
  Bind(z0, LAMBDA z :
    Bind(Mul(z, z), LAMBDA z2 :
      LET t4 == RDiv(Scale, 9)
          t3 == RDiv(Scale, 7) + Mul(z2, t4)
          t2 == RDiv(Scale, 5) + Mul(z2, t3)
          t1 == RDiv(Scale, 3) + Mul(z2, t2)
      IN  Mul(z, Scale + Mul(z2, t1))))

\* Math.log(x) for x > 0: x = 2^k * m with 1 <= m < 2, ln m = 2 atanh((m-1)/(m+1))
Ln(x0) ==
  Bind(x0, LAMBDA x :
    Bind(CHOOSE j \in -15..17 :
           IF j >= 0 THEN Scale <= x \div Pow2(j) /\ x \div Pow2(j) < 2 * Scale
                     ELSE x < Scale /\ Scale <= x * Pow2(-j) /\ x * Pow2(-j) < 2 * Scale,
         LAMBDA k :
           Bind(IF k >= 0 THEN RDiv(x, Pow2(k)) ELSE x * Pow2(-k), LAMBDA m :
             k * LN2 + 2 * AtanhSeries(Div(m - Scale, m + Scale)))))

\* ------------------------------------------------------------------------
\* JavaScript values
\* ------------------------------------------------------------------------

\* A value that is a finite number, null, or NaN
Num(n) == [t |-> "num", v |-> n]
NULL == [t |-> "null", v |-> 0]
NaN == [t |-> "nan", v |-> 0]

\* Number.isFinite(x)
IsFinite(x) == x.t = "num"

\* x ?? d, for the numeric fields of the config object
Coalesce(x, d) == IF x.t = "null" THEN d ELSE x.v

\* An object used as a map from team name to a value: a function on its keys
EmptyMap == <<>>
Has(m, k) == k \in DOMAIN m
Put(m, k, v) ==
  Bind(m, LAMBDA f : Bind2(k, v, LAMBDA key, val :
    [x \in (DOMAIN f) \cup {key} |-> IF x = key THEN val ELSE f[x]]))

\* m[k] ?? d
Lookup(m, k, d) == IF Has(m, k) THEN m[k] ELSE d

\* ------------------------------------------------------------------------
\* Loading the schedule: loadCSV and toNum / parseScore
\* ------------------------------------------------------------------------

\* A text is a sequence of characters
Digits == <<"0", "1", "2", "3", "4", "5", "6", "7", "8", "9">>
IsDigit(c) == \E i \in 1..10 : Digits[i] = c
DigitVal(c) == (CHOOSE i \in 1..10 : Digits[i] = c) - 1

\* The characters the regular expression /[^\d.-]/g leaves in place
IsNumChar(c) == IsDigit(c) \/ c = "." \/ c = "-"
Cleaned(v) == SelectSeq(v, IsNumChar)

\* The number a sequence of digits writes
RECURSIVE DigitsValue(_)
DigitsValue(ds0) ==
  Bind(ds0, LAMBDA ds :
    IF ds = <<>> THEN 0
    ELSE 10 * DigitsValue(SubSeq(ds, 1, Len(ds) - 1)) + DigitVal(ds[Len(ds)]))

\* Number(s) for a text s: the empty text is 0; an optional minus sign, then
\* digits with at most one point and at least one digit, is that decimal
\* number; anything else is NaN
StrToNumber(s0) ==
  Bind(s0, LAMBDA s :
    IF s = <<>> THEN Num(0)
    ELSE
      Bind(IF s[1] = "-" THEN Tail(s) ELSE s, LAMBDA body :
        LET neg == s[1] = "-"
            dots == {i \in 1..Len(body) : body[i] = "."}
            dot == IF dots = {} THEN Len(body) + 1 ELSE CHOOSE i \in dots : TRUE
            ip == SubSeq(body, 1, dot - 1)
            fp == SubSeq(body, dot + 1, Len(body))
            ok == /\ Cardinality(dots) <= 1
                  /\ \A i \in 1..Len(body) : i \in dots \/ IsDigit(body[i])
                  /\ Len(ip) + Len(fp) >= 1
            mag == Real(DigitsValue(ip)) + RDiv(DigitsValue(fp) * Scale, 10 ^ Len(fp))
        IN  IF ok THEN Num(IF neg THEN -mag ELSE mag) ELSE NaN))

\* toNum(v) of loadCSV, parseScore(value) in the variant with records
toNum(v) ==
  IF v = <<>> THEN NULL
  ELSE Bind(StrToNumber(Cleaned(v)), LAMBDA n : IF IsFinite(n) THEN n ELSE NULL)

\* One data line of schedule.csv, split at the commas:
\* Week, Winner, WinnerScore, H/A, Loser, LoserScore
Line(week, winner, ws, ha, loser, ls) ==
  [week |-> week, winner |-> winner, winnerScore |-> ws, ha |-> ha,
   loser |-> loser, loserScore |-> ls]

\* The game record loadCSV makes of one line
ParseLine(l) ==
  [week |-> l.week,
   winner |-> l.winner,
   winnerScore |-> toNum(l.winnerScore),
   winnerIsAway |-> (l.ha = "@"),
   loser |-> l.loser,
   loserScore |-> toNum(l.loserScore)]

\* loadCSV: the game records of the data lines, in file order
loadCSV(lines) == [i \in 1..Len(lines) |-> ParseLine(lines[i])]

\* ------------------------------------------------------------------------
\* ELO helper functions
\* ------------------------------------------------------------------------

\* A variant of expectedProb that leaves the home-field adjustment out
expectedProbNeutral(winnerElo, loserElo, hfaAdj) ==
  LET diff == winnerElo - loserElo
  IN  Div(Scale, Scale + Pow10(DivInt(-diff, 400)))

\* expectedProb(winnerElo, loserElo, hfaAdj)
expectedProb(winnerElo, loserElo, hfaAdj) ==
  LET diff == winnerElo + hfaAdj - loserElo
  IN  Div(Scale, Scale + Pow10(DivInt(-diff, 400)))

\* A variant of computeKprime that subtracts the margin term
computeKprimeMinus(K, mov, eloDiffAbs, wkWeight) ==
  LET factor == Div(Lit(22, 10), Mul(eloDiffAbs, Lit(1, 1000)) + Lit(22, 10))
  IN  K - Mul(Mul(mov, factor), wkWeight)

\* computeKprime(K, mov, eloDiffAbs, wkWeight)
computeKprime(K, mov, eloDiffAbs, wkWeight) ==
  LET factor == Div(Lit(22, 10), Mul(eloDiffAbs, Lit(1, 1000)) + Lit(22, 10))
  IN  K + Mul(Mul(mov, factor), wkWeight)

\* A variant of getWinProbability that takes the size of the home-field
\* advantage, whatever its sign
getWinProbabilityAbsHFA(homeElo, awayElo, HFA) ==
  Div(Scale, Scale + Pow10(DivInt(-(homeElo + Abs(HFA) - awayElo), 400)))

\* A variant of getWinProbability that takes the size of the rating
\* difference, whichever side it favors
getWinProbabilityAbsDiff(homeElo, awayElo, HFA) ==
  Div(Scale, Scale + Pow10(DivInt(-Abs(homeElo + HFA - awayElo), 400)))

\* getWinProbability(homeElo, awayElo, HFA)
getWinProbability(homeElo, awayElo, HFA) ==
  Div(Scale, Scale + Pow10(DivInt(-(homeElo + HFA - awayElo), 400)))

\* ------------------------------------------------------------------------
\* runEloCalculation: parameters, completed games, the fold
\* ------------------------------------------------------------------------

\* The four parameters read from the config object, each with its default
ParamK(config) == Coalesce(config.K, Real(50))
ParamHFA(config) == Coalesce(config.home_field_advantage, Real(25))
ParamHalfLife(config) == Coalesce(config.half_life_weeks, Real(12))
ParamMeanElo(config) == Coalesce(config.mean_elo, Real(1500))
\* A variant of ParamLambda that multiplies by the half-life
ParamLambdaTimes(config) == Mul(Ln(Real(2)), ParamHalfLife(config))
ParamLambda(config) == Div(Ln(Real(2)), ParamHalfLife(config))

\* The filter of completed games: both scores are finite numbers
IsCompleted(g) == IsFinite(g.winnerScore) /\ IsFinite(g.loserScore)

\* A variant of CompletedGames without the filter
CompletedGamesUnfiltered(schedule) == schedule

\* schedule.filter(pred): the elements satisfying pred, in their order
CompletedGames(schedule) == SelectSeq(schedule, IsCompleted)

\* A variant of WeeksCompleted that takes the week of the last row listed
WeeksCompletedLastRow(completed) ==
  IF completed = <<>> THEN 0 ELSE completed[Len(completed)].week

\* A variant of WeeksCompleted that takes the maximum over the rows the loop
\* will not skip
WeeksCompletedProcessed(completed) ==
  LET weeks == {completed[i].week : i \in {k \in 1..Len(completed) : ~(completed[k].winner = "" \/ completed[k].loser = "")}}
  IN  IF weeks = {} THEN 0 ELSE CHOOSE w \in weeks : \A x \in weeks : x <= w

\* Math.max over the weeks of the completed games, 0 when there is none
WeeksCompleted(completed) ==
  IF completed = <<>> THEN 0
  ELSE CHOOSE w \in {completed[i].week : i \in 1..Len(completed)} :
         \A i \in 1..Len(completed) : completed[i].week <= w

\* A variant of SortByWeek that leaves the games in schedule order
SortByWeekNone(games) == games

\* Array.prototype.sort with the comparator (a, b) => a.week - b.week: a stable
\* sort, done here by insertion of each element after the elements that do not
\* come after it
InsertByWeek(sorted0, g) ==
  Bind(sorted0, LAMBDA sorted :
    Bind(Cardinality({i \in 1..Len(sorted) : sorted[i].week <= g.week}), LAMBDA k :
      SubSeq(sorted, 1, k) \o <<g>> \o SubSeq(sorted, k + 1, Len(sorted))))
RECURSIVE SortByWeek(_)
SortByWeek(games) ==
  IF games = <<>> THEN <<>>
  ELSE InsertByWeek(SortByWeek(SubSeq(games, 1, Len(games) - 1)), games[Len(games)])

\* A variant of MissingId that skips no row
MissingIdNever(g) == FALSE

\* !winner || !loser: an identifier that is empty or absent
MissingId(g) == g.winner = "" \/ g.loser = ""

\* A variant of Seed that enters an absent team at 0
SeedAtZero(ratings, team, meanElo) ==
  IF Has(ratings, team) THEN ratings ELSE Put(ratings, team, 0)

\* A variant of Seed that sets the team to mean_elo whether it has a rating or not
SeedAlways(ratings, team, meanElo) == Put(ratings, team, meanElo)

\* ratings[team] === undefined, then ratings[team] = meanElo
Seed(ratings, team, meanElo) ==
  Bind(ratings, LAMBDA r : IF Has(r, team) THEN r ELSE Put(r, team, meanElo))

\* A variant of GameLocals that scores the game as a loss of the winner
GameLocalsAsLoss(g, config, weeksCompleted, winnerPrior, loserPrior) ==
  Bind2(expectedProb(winnerPrior, loserPrior,
                     IF g.winnerIsAway THEN -ParamHFA(config) ELSE ParamHFA(config)),
        Max(Real(1), g.winnerScore.v - g.loserScore.v), LAMBDA E, mov :
    Bind(Min(Real(1), Exp(-(ParamLambda(config) * (weeksCompleted - g.week)))), LAMBDA wkWeight :
      Bind(computeKprime(ParamK(config), mov, Abs(winnerPrior - loserPrior), wkWeight),
           LAMBDA kPrime :
        Bind(Mul(kPrime, 0 - E), LAMBDA delta :
          [winnerPrior |-> winnerPrior, loserPrior |-> loserPrior,
           hfaAdj |-> IF g.winnerIsAway THEN -ParamHFA(config) ELSE ParamHFA(config),
           E |-> E, mov |-> mov, wkWeight |-> wkWeight, kPrime |-> kPrime, delta |-> delta,
           winnerAfter |-> winnerPrior + delta, loserAfter |-> loserPrior - delta]))))

\* A variant of GameLocals whose margin is the distance of the two scores
GameLocalsAbsMargin(g, config, weeksCompleted, winnerPrior, loserPrior) ==
  Bind2(expectedProb(winnerPrior, loserPrior,
                     IF g.winnerIsAway THEN -ParamHFA(config) ELSE ParamHFA(config)),
        Abs(g.winnerScore.v - g.loserScore.v), LAMBDA E, mov :
    Bind(Min(Real(1), Exp(-(ParamLambda(config) * (weeksCompleted - g.week)))), LAMBDA wkWeight :
      Bind(computeKprime(ParamK(config), mov, Abs(winnerPrior - loserPrior), wkWeight),
           LAMBDA kPrime :
        Bind(Mul(kPrime, Real(1) - E), LAMBDA delta :
          [winnerPrior |-> winnerPrior, loserPrior |-> loserPrior,
           hfaAdj |-> IF g.winnerIsAway THEN -ParamHFA(config) ELSE ParamHFA(config),
           E |-> E, mov |-> mov, wkWeight |-> wkWeight, kPrime |-> kPrime, delta |-> delta,
           winnerAfter |-> winnerPrior + delta, loserAfter |-> loserPrior - delta]))))

\* The locals of one iteration, from the two prior ratings
GameLocals(g, config, weeksCompleted, winnerPrior, loserPrior) ==
  Bind2(expectedProb(winnerPrior, loserPrior,
                     IF g.winnerIsAway THEN -ParamHFA(config) ELSE ParamHFA(config)),
        Max(Real(1), g.winnerScore.v - g.loserScore.v), LAMBDA E, mov :
    Bind(Min(Real(1), Exp(-(ParamLambda(config) * (weeksCompleted - g.week)))), LAMBDA wkWeight :
      Bind(computeKprime(ParamK(config), mov, Abs(winnerPrior - loserPrior), wkWeight),
           LAMBDA kPrime :
        Bind(Mul(kPrime, Real(1) - E), LAMBDA delta :
          [winnerPrior |-> winnerPrior, loserPrior |-> loserPrior,
           hfaAdj |-> IF g.winnerIsAway THEN -ParamHFA(config) ELSE ParamHFA(config),
           E |-> E, mov |-> mov, wkWeight |-> wkWeight, kPrime |-> kPrime, delta |-> delta,
           winnerAfter |-> winnerPrior + delta, loserAfter |-> loserPrior - delta]))))

\* A variant of ApplyUpdate that stores the winner's new rating only
ApplyUpdateWinnerOnly(ratings, g, l) ==
  Put(ratings, g.winner, l.winnerAfter)

\* ratings[winner] = winnerAfter; ratings[loser] = loserAfter
ApplyUpdate(ratings, g, l) ==
  Put(Put(ratings, g.winner, l.winnerAfter), g.loser, l.loserAfter)

\* One iteration of the loop over the sorted completed games, from the rating
\* map before it: whether the game is skipped, the locals of the iteration
\* (those of a skipped game are all 0) and the rating map after it
GameUpdate(ratings0, g, config, weeksCompleted) ==
  Bind(ratings0, LAMBDA ratings :
    IF MissingId(g)
    THEN [skipped |-> TRUE, game |-> g, before |-> ratings, after |-> ratings,
          locals |-> [winnerPrior |-> 0, loserPrior |-> 0, hfaAdj |-> 0, E |-> 0, mov |-> 0,
                      wkWeight |-> 0, kPrime |-> 0, delta |-> 0, winnerAfter |-> 0,
                      loserAfter |-> 0]]
    ELSE
      Bind(Seed(Seed(ratings, g.winner, ParamMeanElo(config)), g.loser, ParamMeanElo(config)),
           LAMBDA seeded :
        Bind(GameLocals(g, config, weeksCompleted, seeded[g.winner], seeded[g.loser]),
             LAMBDA l :
          [skipped |-> FALSE, game |-> g, before |-> ratings,
           after |-> ApplyUpdate(seeded, g, l),
           locals |-> l])))

\* The loop: the iterations over the first n sorted games, in order
RECURSIVE FoldTrace(_, _, _, _, _)
FoldTrace(ratings, sorted, config, weeksCompleted, n) ==
  IF n = 0 THEN <<>>
  ELSE Bind(FoldTrace(ratings, sorted, config, weeksCompleted, n - 1), LAMBDA prev :
         Append(prev, GameUpdate(IF prev = <<>> THEN ratings ELSE prev[Len(prev)].after,
                                 sorted[n], config, weeksCompleted)))

\* A variant of FinalRatings that publishes the starting map
FinalRatingsStale(startingElo, tr) ==
  startingElo

\* FINAL_RATINGS = ratings: the map the loop leaves, which is the copy of the
\* starting map when the loop has no iteration
FinalRatings(startingElo, tr) ==
  IF tr = <<>> THEN startingElo ELSE tr[Len(tr)].after

\* A variant of InputsAfter in which ratings is the loaded map itself and the
\* sorted list is the schedule itself
InputsAliased(startingElo, schedule, ratings, sorted) ==
  [startingElo |-> ratings,
   schedule |-> IF Len(sorted) = Len(schedule) THEN sorted ELSE schedule]

\* The two loaded objects as the run leaves them.  ratings is a new object
\* (Object.assign({}, startingElo || {})) and completedGames is a new array
\* (schedule.filter(...)): the assignments to ratings and the sort of
\* completedGames do not reach startingElo and schedule
InputsAfter(startingElo, schedule, ratings, sorted) ==
  [startingElo |-> startingElo, schedule |-> schedule]

\* The rating computation of runEloCalculation, from the three loaded values:
\* the iterations of the fold, the rating map it ends with, and the loaded
\* objects as it leaves them
ComputeRatings(startingElo, config, schedule) ==
  Bind(CompletedGames(schedule), LAMBDA completedGames :
    Bind2(WeeksCompleted(completedGames), SortByWeek(completedGames),
          LAMBDA weeksCompleted, sorted :
      Bind(FoldTrace(startingElo, sorted, config, weeksCompleted, Len(sorted)), LAMBDA tr :
        [trace |-> tr,
         games |-> Len(completedGames),
         weeksCompleted |-> weeksCompleted,
         ratings |-> FinalRatings(startingElo, tr),
         inputs |-> InputsAfter(startingElo, schedule,
                                FinalRatings(startingElo, tr), sorted)])))

\* ------------------------------------------------------------------------
\* Predictions (future only): predictWeek, predictTeam
\* ------------------------------------------------------------------------

\* The filter of future games: neither score is a finite number
IsFuture(g) == ~IsFinite(g.winnerScore) /\ ~IsFinite(g.loserScore)

\* const k = 0.147
MarginFactor == Lit(147, 1000)

\* const eps = 1e-12: below the resolution of the arithmetic, and taken as
\* its smallest positive number
Eps == 1

HomeTeam(g) == IF g.winnerIsAway THEN g.loser ELSE g.winner
AwayTeam(g) == IF g.winnerIsAway THEN g.winner ELSE g.loser

\* pHomeWin > 0.5 ? homeTeam : awayTeam
ProjectedWinner(homeTeam, awayTeam, pHomeWin) ==
  IF 2 * pHomeWin > Scale THEN homeTeam ELSE awayTeam

\* projectedWinner === homeTeam ? pHomeWin : 1 - pHomeWin
WinnerProb(projectedWinner, homeTeam, pHomeWin) ==
  IF projectedWinner = homeTeam THEN pHomeWin ELSE Real(1) - pHomeWin

\* Math.log(pClamped / (1 - pClamped)) / k, pClamped being pWinner brought
\* into eps .. 1 - eps
Margin(pWinner) ==
  Bind(Min(Real(1) - Eps, Max(Eps, pWinner)), LAMBDA pClamped :
    Div(Ln(Div(pClamped, Real(1) - pClamped)), MarginFactor))

\* A variant of RatingOrMean whose default is 0
RatingOrZero(ratings, team, config) == Lookup(ratings, team, 0)

\* FINAL_RATINGS[team] ?? Number(CONFIG.mean_elo ?? 1500)
RatingOrMean(ratings, team, config) == Lookup(ratings, team, ParamMeanElo(config))

\* The body of futureGames.map(g => ...): the forecast of one game.  The
\* fields pHomeWin and game are not in the object of the source: they keep
\* the local pHomeWin and the game the forecast is of
Forecast(g, ratings, config) ==
  Bind(getWinProbability(RatingOrMean(ratings, HomeTeam(g), config),
                         RatingOrMean(ratings, AwayTeam(g), config), ParamHFA(config)),
       LAMBDA pHomeWin :
    Bind(ProjectedWinner(HomeTeam(g), AwayTeam(g), pHomeWin), LAMBDA projectedWinner :
      Bind(WinnerProb(projectedWinner, HomeTeam(g), pHomeWin), LAMBDA pWinner :
        [homeTeam |-> HomeTeam(g), awayTeam |-> AwayTeam(g),
         projectedWinner |-> projectedWinner, winProb |-> pWinner,
         margin |-> Margin(pWinner), pHomeWin |-> pHomeWin, game |-> g])))

\* predictions.sort((a, b) => b.winProb - a.winProb): stable, by insertion
InsertByWinProb(sorted0, p) ==
  Bind(sorted0, LAMBDA sorted :
    Bind(Cardinality({i \in 1..Len(sorted) : sorted[i].winProb >= p.winProb}), LAMBDA k :
      SubSeq(sorted, 1, k) \o <<p>> \o SubSeq(sorted, k + 1, Len(sorted))))
RECURSIVE SortByWinProb(_)
SortByWinProb(ps) ==
  IF ps = <<>> THEN <<>>
  ELSE InsertByWinProb(SortByWinProb(SubSeq(ps, 1, Len(ps) - 1)), ps[Len(ps)])

\* The forecasts of a list of games, sorted for display
Predictions(games, ratings, config) ==
  Bind([i \in 1..Len(games) |-> Forecast(games[i], ratings, config)], SortByWinProb)

\* The future games predictWeek selects for a week
WeekFutureGames(schedule, week) ==
  LET Sel(g) == g.week = week /\ IsFuture(g)
  IN  SelectSeq(schedule, Sel)

\* The future games predictTeam selects for a team
TeamFutureGames(schedule, team) ==
  LET Sel(g) == IsFuture(g) /\ (g.winner = team \/ g.loser = team)
  IN  SelectSeq(schedule, Sel)

\* ------------------------------------------------------------------------
\* Team records: generateRecordsTable
\* ------------------------------------------------------------------------

\* records[team] for every team of the rating map
InitialRecords(ratings) ==
  [t \in DOMAIN ratings |->
     [wins |-> 0, losses |-> 0, projWins |-> 0, projLosses |-> 0, elo |-> ratings[t]]]

\* One completed game: the winner's wins and the loser's losses, for the
\* teams that have a record
CountCompleted(records0, g) ==
  Bind(records0, LAMBDA records :
    Bind(IF Has(records, g.winner)
         THEN [records EXCEPT ![g.winner].wins = @ + 1] ELSE records, LAMBDA r1 :
      IF Has(r1, g.loser) THEN [r1 EXCEPT ![g.loser].losses = @ + 1] ELSE r1))

\* A variant of AddShares that gives the away team the shares of the home team
AddSharesSwapped(records, homeTeam, awayTeam, pHomeWin) ==
  Bind([records EXCEPT ![homeTeam].projWins = @ + pHomeWin], LAMBDA r1 :
    Bind([r1 EXCEPT ![homeTeam].projLosses = @ + (Real(1) - pHomeWin)], LAMBDA r2 :
      Bind([r2 EXCEPT ![awayTeam].projWins = @ + pHomeWin], LAMBDA r3 :
        [r3 EXCEPT ![awayTeam].projLosses = @ + (Real(1) - pHomeWin)])))

\* The four additions of a future game that is counted
AddShares(records, homeTeam, awayTeam, pHomeWin) ==
  Bind([records EXCEPT ![homeTeam].projWins = @ + pHomeWin], LAMBDA r1 :
    Bind([r1 EXCEPT ![homeTeam].projLosses = @ + (Real(1) - pHomeWin)], LAMBDA r2 :
      Bind([r2 EXCEPT ![awayTeam].projWins = @ + (Real(1) - pHomeWin)], LAMBDA r3 :
        [r3 EXCEPT ![awayTeam].projLosses = @ + pHomeWin])))

\* One future game: nothing when a side has no record, else the probability
\* shares of the home and of the away team
CountFuture(records0, g, ratings, config) ==
  Bind(records0, LAMBDA records :
    IF ~Has(records, HomeTeam(g)) \/ ~Has(records, AwayTeam(g)) THEN records
    ELSE Bind(getWinProbability(RatingOrMean(ratings, HomeTeam(g), config),
                                RatingOrMean(ratings, AwayTeam(g), config),
                                ParamHFA(config)), LAMBDA pHomeWin :
           AddShares(records, HomeTeam(g), AwayTeam(g), pHomeWin)))

RECURSIVE CountAllCompleted(_, _)
CountAllCompleted(records, games) ==
  IF games = <<>> THEN records
  ELSE CountCompleted(CountAllCompleted(records, SubSeq(games, 1, Len(games) - 1)),
                      games[Len(games)])

RECURSIVE CountAllFuture(_, _, _, _)
CountAllFuture(records, games, ratings, config) ==
  IF games = <<>> THEN records
  ELSE CountFuture(CountAllFuture(records, SubSeq(games, 1, Len(games) - 1), ratings, config),
                   games[Len(games)], ratings, config)

\* The records object generateRecordsTable builds from the three globals
Records(ratings, schedule, config) ==
  CountAllFuture(
    CountAllCompleted(InitialRecords(ratings), SelectSeq(schedule, IsCompleted)),
    SelectSeq(schedule, IsFuture), ratings, config)

\* generateRecordsTable: the message when there is no schedule or no rating,
\* else the table of the records
RecordsTable(ratings, schedule, config) ==
  IF schedule = <<>> \/ DOMAIN ratings = {}
  THEN [shown |-> FALSE, records |-> EmptyMap]
  ELSE [shown |-> TRUE, records |-> Records(ratings, schedule, config)]

\* ------------------------------------------------------------------------
\* The data files the page loads
\* ------------------------------------------------------------------------

\* Longest schedule, and the last week a prediction is asked for
MaxGames == 2
MaxWeek == 2

Teams == {"A", "B", "C"}

Txt24 == <<"2", "4">>
Txt10 == <<"1", "0">>
TxtTBD == <<"T", "B", "D">>
TxtDash == <<"-">>
TxtNone == <<>>

\* The data lines a schedule.csv is made of
Lines ==
  { Line(1, "A", Txt24, "", "B", Txt10),      \* played, the winner at home
    Line(1, "B", Txt24, "@", "C", Txt10),     \* played, against a third team
    Line(1, "A", Txt24, "", "A", Txt10),      \* played, the same team on both sides
    Line(1, "", Txt24, "", "B", Txt10),       \* played, no winner name
    Line(2, "A", TxtNone, "", "C", TxtNone),  \* not played
    Line(2, "A", TxtDash, "@", "A", TxtDash), \* not played (scores marked -), the same team twice
    Line(2, "B", TxtTBD, "@", "A", TxtTBD),   \* not played, scores marked TBD
    Line(2, "A", Txt24, "", "B", TxtNone)     \* one score only
  }

\* The schedule files: every sequence of at most MaxGames data lines
ScheduleFiles == UNION {[1..n -> Lines] : n \in 0..MaxGames}

\* A config.json: each parameter a number or absent
Config(K, hfa, halfLife, meanElo) ==
  [K |-> K, home_field_advantage |-> hfa, half_life_weeks |-> halfLife, mean_elo |-> meanElo]
ConfigFiles ==
  { Config(NULL, NULL, NULL, NULL),
    Config(Num(Real(20)), Num(Real(-25)), Num(Real(1)), Num(Real(1400))) }

\* A starting_elo.json: a map from team name to rating
StartingEloFiles ==
  { EmptyMap,
    [t \in {"A", "B"} |-> IF t = "A" THEN Real(1600) ELSE Real(1450)] }

\* ------------------------------------------------------------------------
\* State
\* ------------------------------------------------------------------------

VARIABLES
  FINAL_RATINGS,    \* global: the rating map of the last successful run
  SCHEDULE,         \* global: the game records of the last loaded schedule
  CONFIG,           \* global: the last loaded config object
  startingEloFile,  \* data/starting_elo.json
  configFile,       \* data/config.json
  scheduleFile,     \* data/schedule.csv
  status,           \* the text of the status element
  trace,            \* the iterations of the fold of the last successful run
  startingElo,      \* the object loaded from starting_elo.json, as the last run left it
  predictionOutput, \* the content of the predictionOutput element
  recordsTable,     \* the content of the recordsTable element
  inflight          \* the invocations of runEloCalculation awaiting their loads

vars == <<FINAL_RATINGS, SCHEDULE, CONFIG, startingElo, startingEloFile, configFile, scheduleFile,
          status, trace, predictionOutput, recordsTable, inflight>>
files == <<startingEloFile, configFile, scheduleFile>>
globals == <<FINAL_RATINGS, SCHEDULE, CONFIG>>

Init ==
  /\ FINAL_RATINGS = EmptyMap
  /\ SCHEDULE = <<>>
  /\ CONFIG = Config(NULL, NULL, NULL, NULL)
  /\ startingEloFile \in StartingEloFiles
  /\ configFile \in ConfigFiles
  /\ scheduleFile \in ScheduleFiles
  /\ status = [kind |-> "idle", games |-> 0, weeksCompleted |-> 0]
  /\ trace = <<>>
  /\ startingElo = EmptyMap
  /\ predictionOutput = [kind |-> "blank", arg |-> "", predictions |-> <<>>]
  /\ recordsTable = [shown |-> FALSE, records |-> EmptyMap]
  /\ inflight = EmptyBag

\* ------------------------------------------------------------------------
\* Handlers
\* ------------------------------------------------------------------------

\* runEloCalculation when the three loads succeed: the globals, the status
\* and the records table after the run
runEloCalculation ==
  \E schedule \in {loadCSV(scheduleFile)} :
    \E res \in {ComputeRatings(startingEloFile, configFile, schedule)} :
      /\ CONFIG' = configFile
      /\ SCHEDULE' = res.inputs.schedule
      /\ startingElo' = res.inputs.startingElo
      /\ FINAL_RATINGS' = res.ratings
      /\ trace' = res.trace
      /\ status' = [kind |-> "processed", games |-> res.games,
                    weeksCompleted |-> res.weeksCompleted]
      /\ recordsTable' = RecordsTable(res.ratings, res.inputs.schedule, configFile)
      /\ UNCHANGED <<files, predictionOutput, inflight>>

\* A variant of predictWeek that stores the default rating of every team it
\* looks up
predictWeekSeeding ==
  \E week \in {NaN} \cup {Num(w) : w \in 0..MaxWeek} :
    \E futureGames \in {WeekFutureGames(SCHEDULE, week.v)} :
        /\ predictionOutput' =
             IF ~IsFinite(week)
             THEN [kind |-> "selectWeek", arg |-> "", predictions |-> <<>>]
             ELSE IF futureGames = <<>>
             THEN [kind |-> "noWeek", arg |-> ToString(week.v), predictions |-> <<>>]
             ELSE [kind |-> "week", arg |-> ToString(week.v),
                   predictions |-> Predictions(futureGames, FINAL_RATINGS, CONFIG)]
        /\ FINAL_RATINGS' =
             IF ~IsFinite(week) THEN FINAL_RATINGS
             ELSE [t \in DOMAIN FINAL_RATINGS \cup
                           UNION {{HomeTeam(futureGames[i]), AwayTeam(futureGames[i])} :
                                    i \in DOMAIN futureGames}
                     |-> RatingOrMean(FINAL_RATINGS, t, CONFIG)]
        /\ UNCHANGED <<SCHEDULE, CONFIG, files, status, trace, startingElo, recordsTable, inflight>>

\* predictWeek, for the value of the week selector: a week number, or NaN
\* when the value is no number
predictWeek ==
  \E week \in {NaN} \cup {Num(w) : w \in 0..MaxWeek} :
    \E futureGames \in {WeekFutureGames(SCHEDULE, week.v)} :
        /\ predictionOutput' =
             IF ~IsFinite(week)
             THEN [kind |-> "selectWeek", arg |-> "", predictions |-> <<>>]
             ELSE IF futureGames = <<>>
             THEN [kind |-> "noWeek", arg |-> ToString(week.v), predictions |-> <<>>]
             ELSE IF CONFIG = NULL
             THEN predictionOutput  \* CONFIG.home_field_advantage throws
             ELSE [kind |-> "week", arg |-> ToString(week.v),
                   predictions |-> Predictions(futureGames, FINAL_RATINGS, CONFIG)]
        /\ UNCHANGED <<globals, files, status, trace, startingElo, recordsTable, inflight>>

\* predictTeam, for the team selected (none selected: the empty name)
predictTeam ==
  \E team \in Teams \cup {""} :
    \E futureGames \in {TeamFutureGames(SCHEDULE, team)} :
        /\ predictionOutput' =
             IF team = "" THEN [kind |-> "selectTeam", arg |-> "", predictions |-> <<>>]
             ELSE IF futureGames = <<>>
             THEN [kind |-> "noTeam", arg |-> team, predictions |-> <<>>]
             ELSE IF CONFIG = NULL
             THEN predictionOutput  \* CONFIG.home_field_advantage throws
             ELSE [kind |-> "team", arg |-> team,
                   predictions |-> Predictions(futureGames, FINAL_RATINGS, CONFIG)]
        /\ UNCHANGED <<globals, files, status, trace, startingElo, recordsTable, inflight>>

\* generateRecordsTable, as sortTable calls it
generateRecordsTable ==
  /\ recordsTable' =
       IF SCHEDULE # <<>> /\ DOMAIN FINAL_RATINGS # {} /\ CONFIG = NULL
       THEN recordsTable  \* CONFIG.home_field_advantage throws
       ELSE RecordsTable(FINAL_RATINGS, SCHEDULE, CONFIG)
  /\ UNCHANGED <<globals, files, status, trace, startingElo, predictionOutput, inflight>>

Next ==
  \/ runEloCalculation
  \/ predictWeek
  \/ predictTeam
  \/ generateRecordsTable

Spec == Init /\ [][Next]_vars

\* ------------------------------------------------------------------------
\* The fold over a season: weeks far apart, every kind of score line
\* ------------------------------------------------------------------------

Txt17 == <<"1", "7">>
Txt20 == <<"2", "0">>
Txt11 == <<"1", "1">>

\* The weeks of the season's games: the first, and the last two
FoldWeeks == {1, 11, 12}

\* The score columns of a played line: a clear win, a tie, the winner's
\* column lower than the loser's, a win by one point
FoldScores == {<<Txt24, Txt10>>, <<Txt10, Txt10>>, <<Txt17, Txt20>>, <<Txt11, Txt10>>}

\* The first line of a schedule.csv: A against B in any week with any score,
\* a played line without a winner name, a line not played yet
FoldLines ==
  {Line(w, "A", sc[1], "", "B", sc[2]) : w \in FoldWeeks, sc \in FoldScores}
    \cup {Line(12, "", Txt24, "", "B", Txt10), Line(2, "A", TxtNone, "", "B", TxtNone)}

\* The second line: the return game, in the last week, the week before or
\* the first week, or a game of two other teams
FoldReturnLines ==
  { Line(12, "B", Txt24, "", "A", Txt10),
    Line(11, "B", Txt24, "@", "A", Txt10),
    Line(1, "B", Txt24, "", "A", Txt10),
    Line(12, "C", Txt24, "@", "D", Txt10),    \* a game of two other teams
    Line(1, "C", Txt24, "@", "D", Txt10) }

FoldScheduleFiles ==
  {<<>>} \cup {<<l>> : l \in FoldLines}
         \cup {<<l1, l2>> : l1 \in FoldLines, l2 \in FoldReturnLines}

\* config.json: absent parameters (K 50, half-life 12) or a half-life of 11
FoldConfigFiles ==
  { Config(NULL, NULL, NULL, NULL),
    Config(Num(Real(20)), Num(Real(-25)), Num(Real(11)), Num(Real(1400))) }

\* starting_elo.json: empty, equal ratings, unequal ratings
FoldStartingEloFiles ==
  { EmptyMap,
    [t \in {"A", "B"} |-> Real(1500)],
    [t \in {"A", "B"} |-> IF t = "A" THEN Real(1600) ELSE Real(1450)] }

FoldInit ==
  /\ FINAL_RATINGS = EmptyMap
  /\ SCHEDULE = <<>>
  /\ CONFIG = Config(NULL, NULL, NULL, NULL)
  /\ startingEloFile \in FoldStartingEloFiles
  /\ configFile \in FoldConfigFiles
  /\ scheduleFile \in FoldScheduleFiles
  /\ status = [kind |-> "idle", games |-> 0, weeksCompleted |-> 0]
  /\ trace = <<>>
  /\ startingElo = EmptyMap
  /\ predictionOutput = [kind |-> "blank", arg |-> "", predictions |-> <<>>]
  /\ recordsTable = [shown |-> FALSE, records |-> EmptyMap]
  /\ inflight = EmptyBag

FoldSpec == FoldInit /\ [][Next]_vars

\* ------------------------------------------------------------------------
\* Forecasts over a grid of ratings: a season at its start
\* ------------------------------------------------------------------------

\* The home teams and the away teams of the fixtures
ForecastHomes == {"A", "B", "G", "H"}
ForecastAways == {"A", "B", "C"}

\* The lines of a schedule.csv: without a score, every fixture of a home team
\* against another away team; with a score, home wins of B and of G
ForecastLines ==
  {Line(2, p[1], TxtNone, "", p[2], TxtNone) :
     p \in {q \in ForecastHomes \X ForecastAways : q[1] # q[2]}}
    \cup {Line(1, p[1], Txt24, "", p[2], Txt10) : p \in {"B", "G"} \X {"A", "C"}}

ForecastScheduleFiles ==
  {<<>>} \cup {<<l>> : l \in ForecastLines}
         \cup {<<l1, l2>> : l1 \in ForecastLines, l2 \in ForecastLines}

\* starting_elo.json: ratings a hundred points apart, and two ratings far
\* above the others (a file that is not on the rating scale)
ForecastStartingEloFiles ==
  { [t \in {"A", "B", "G", "H"} |->
       CASE t = "A" -> Real(1400) [] t = "B" -> Real(1500)
         [] t = "G" -> Real(9000) [] t = "H" -> Real(9500)],
    [t \in {"A", "B", "C", "G", "H"} |->
       CASE t = "A" -> Real(1600) [] t = "B" -> Real(1400) [] t = "C" -> Real(1500)
         [] t = "G" -> Real(9000) [] t = "H" -> Real(9000)] }

\* config.json: the home-field advantage absent (25), 0 and negative
ForecastConfigFiles ==
  { Config(NULL, NULL, NULL, NULL),
    Config(NULL, Num(Real(0)), NULL, NULL),
    Config(NULL, Num(Real(-25)), NULL, Num(Real(1600))) }

ForecastInit ==
  /\ FINAL_RATINGS = EmptyMap
  /\ SCHEDULE = <<>>
  /\ CONFIG = Config(NULL, NULL, NULL, NULL)
  /\ startingEloFile \in ForecastStartingEloFiles
  /\ configFile \in ForecastConfigFiles
  /\ scheduleFile \in ForecastScheduleFiles
  /\ status = [kind |-> "idle", games |-> 0, weeksCompleted |-> 0]
  /\ trace = <<>>
  /\ startingElo = EmptyMap
  /\ predictionOutput = [kind |-> "blank", arg |-> "", predictions |-> <<>>]
  /\ recordsTable = [shown |-> FALSE, records |-> EmptyMap]
  /\ inflight = EmptyBag

ForecastSpec == ForecastInit /\ [][Next]_vars

\* ------------------------------------------------------------------------
\* runEloCalculation as it runs: the click, the loads it awaits, and what
\* follows them; the files may change while invocations are awaiting
\* ------------------------------------------------------------------------

\* The invocations that may be awaiting their loads at one time
MaxInFlight == 2

\* A load of an invocation: not resolved yet, or resolved with a value
Pending(v) == [done |-> FALSE, value |-> v]
Loaded(v) == [done |-> TRUE, value |-> v]

\* An invocation at await Promise.all([...]): its three loads
NewInvocation ==
  [startingElo |-> Pending(EmptyMap),
   config |-> Pending(Config(NULL, NULL, NULL, NULL)),
   schedule |-> Pending(<<>>)]

PendingLoads(inv) == {l \in {"startingElo", "config", "schedule"} : ~inv[l].done}

\* The load of an invocation that resolves next.  The three loads are taken
\* to resolve in the order of the array given to Promise.all; the files may
\* change between any two of them, so every combination of file contents
\* is loaded all the same
NextLoad(inv) ==
  IF ~inv.startingElo.done THEN "startingElo"
  ELSE IF ~inv.config.done THEN "config" ELSE "schedule"

\* What a load resolves with: the content of its file at that moment
Response(l) ==
  CASE l = "startingElo" -> startingEloFile
    [] l = "config" -> configFile
    [] l = "schedule" -> loadCSV(scheduleFile)

\* The click on runBtn, up to the await
runEloCalculationStarts ==
  /\ BagCardinality(inflight) < MaxInFlight
  /\ inflight' = inflight (+) SetToBag({NewInvocation})
  /\ status' = [kind |-> "loading", games |-> 0, weeksCompleted |-> 0]
  /\ UNCHANGED <<globals, files, trace, startingElo, predictionOutput, recordsTable>>

\* One load of an invocation resolves while another is still awaited
loadResolves ==
  \E inv \in BagToSet(inflight) :
    \E l \in {NextLoad(inv)} :
      /\ PendingLoads(inv) # {l}
      /\ inflight' = (inflight (-) SetToBag({inv}))
                       (+) SetToBag({[inv EXCEPT ![l] = Loaded(Response(l))]})
      /\ UNCHANGED <<globals, files, status, trace, startingElo, predictionOutput,
                     recordsTable>>

\* A variant in which the failure is noticed after the globals of the
\* loads were assigned
loadRejectsAfterAssignment ==
  \E inv \in BagToSet(inflight) :
    /\ inflight' = inflight (-) SetToBag({inv})
    /\ CONFIG' = inv.config.value
    /\ SCHEDULE' = inv.schedule.value
    /\ status' = [kind |-> "error", games |-> 0, weeksCompleted |-> 0]
    /\ UNCHANGED <<FINAL_RATINGS, files, trace, startingElo, predictionOutput,
                   recordsTable>>

\* One load of an invocation fails: Promise.all rejects and the catch block
\* runs
loadRejects ==
  \E inv \in BagToSet(inflight) :
    /\ inflight' = inflight (-) SetToBag({inv})
    /\ status' = [kind |-> "error", games |-> 0, weeksCompleted |-> 0]
    /\ UNCHANGED <<globals, files, trace, startingElo, predictionOutput, recordsTable>>

\* The last load of an invocation resolves and the invocation runs to its
\* end without another await.  config.K throws when config.json holds null:
\* CONFIG and SCHEDULE are assigned by then, and the catch block runs
runEloCalculationResumes ==
  \E inv \in BagToSet(inflight) :
    \E l \in {NextLoad(inv)} :
      /\ PendingLoads(inv) = {l}
      /\ inflight' = inflight (-) SetToBag({inv})
      /\ \E got \in {[inv EXCEPT ![l] = Loaded(Response(l))]} :
           IF got.config.value = NULL
           THEN /\ CONFIG' = NULL
                /\ SCHEDULE' = got.schedule.value
                /\ status' = [kind |-> "error", games |-> 0, weeksCompleted |-> 0]
                /\ UNCHANGED <<FINAL_RATINGS, files, trace, startingElo, predictionOutput,
                               recordsTable>>
           ELSE \E res \in {ComputeRatings(got.startingElo.value, got.config.value,
                                           got.schedule.value)} :
                  /\ CONFIG' = got.config.value
                  /\ SCHEDULE' = res.inputs.schedule
                  /\ startingElo' = res.inputs.startingElo
                  /\ FINAL_RATINGS' = res.ratings
                  /\ trace' = res.trace
                  /\ status' = [kind |-> "processed", games |-> res.games,
                                weeksCompleted |-> res.weeksCompleted]
                  /\ recordsTable' =
                       RecordsTable(res.ratings, res.inputs.schedule, got.config.value)
                  /\ UNCHANGED <<files, predictionOutput>>

\* The files of the page while it is open.  starting_elo.json stays as it is
AsyncStartingEloFiles ==
  { [t \in {"A", "B"} |-> IF t = "A" THEN Real(1600) ELSE Real(1450)] }

\* config.json: an object without parameters, or null
AsyncConfigFiles == {Config(NULL, NULL, NULL, NULL), NULL}

AsyncScheduleFiles ==
  { <<Line(1, "A", Txt24, "", "B", Txt10)>>,
    <<Line(1, "B", Txt24, "@", "A", Txt10), Line(2, "A", TxtNone, "", "B", TxtNone)>> }

\* config.json or schedule.csv is replaced on the server
fileChanges ==
  /\ \/ /\ configFile' \in AsyncConfigFiles \ {configFile}
        /\ UNCHANGED <<startingEloFile, scheduleFile>>
     \/ /\ scheduleFile' \in AsyncScheduleFiles \ {scheduleFile}
        /\ UNCHANGED <<startingEloFile, configFile>>
  /\ UNCHANGED <<globals, status, trace, startingElo, predictionOutput, recordsTable,
                 inflight>>

AsyncInit ==
  /\ FINAL_RATINGS = EmptyMap
  /\ SCHEDULE = <<>>
  /\ CONFIG = Config(NULL, NULL, NULL, NULL)
  /\ startingEloFile \in AsyncStartingEloFiles
  /\ configFile \in AsyncConfigFiles
  /\ scheduleFile \in AsyncScheduleFiles
  /\ status = [kind |-> "idle", games |-> 0, weeksCompleted |-> 0]
  /\ trace = <<>>
  /\ startingElo = EmptyMap
  /\ predictionOutput = [kind |-> "blank", arg |-> "", predictions |-> <<>>]
  /\ recordsTable = [shown |-> FALSE, records |-> EmptyMap]
  /\ inflight = EmptyBag

AsyncNext ==
  \/ runEloCalculationStarts
  \/ loadResolves
  \/ loadRejects
  \/ runEloCalculationResumes
  \/ fileChanges
  \/ predictWeek
  \/ predictTeam
  \/ generateRecordsTable

AsyncSpec == AsyncInit /\ [][AsyncNext]_vars

\* ------------------------------------------------------------------------
\* Properties of the rating run
\* ------------------------------------------------------------------------

Processed == status.kind = "processed"

\* The iterations of the last run that updated ratings
Updates == {i \in DOMAIN trace : ~trace[i].skipped}

\* What the winner's stored rating gained and the loser's stored rating lost
\* in iteration i, against their ratings on entry (seeded when absent)
WinnerGain(i) == trace[i].after[trace[i].game.winner] - trace[i].locals.winnerPrior
LoserLoss(i) == trace[i].locals.loserPrior - trace[i].after[trace[i].game.loser]

Names(g) == {g.winner, g.loser} \ {""}

\* C3, as stated: after a run, the rating map has an entry for every team
\* of every game of the schedule, completed or future, and for every team of
\* the starting map.
C3_CoversEveryGame ==
  Processed =>
    /\ \A i \in DOMAIN SCHEDULE : Names(SCHEDULE[i]) \subseteq DOMAIN FINAL_RATINGS
    /\ DOMAIN startingEloFile \subseteq DOMAIN FINAL_RATINGS

\* C3, amended: after a run, the rating map has an entry for exactly the
\* teams of the starting map and the teams of the completed games that name
\* both a winner and a loser.
C3_CoversProcessedGames ==
  Processed =>
    DOMAIN FINAL_RATINGS =
      DOMAIN startingEloFile \cup
        UNION { Names(SCHEDULE[i]) :
                  i \in { j \in DOMAIN SCHEDULE :
                            /\ SCHEDULE[j].winnerScore.t = "num"
                            /\ SCHEDULE[j].loserScore.t = "num"
                            /\ SCHEDULE[j].winner # ""
                            /\ SCHEDULE[j].loser # "" } }

C3_Witness ==
  /\ Processed
  /\ \E t \in DOMAIN FINAL_RATINGS : t \notin DOMAIN startingEloFile
  /\ \E i \in DOMAIN SCHEDULE : ~(Names(SCHEDULE[i]) \subseteq DOMAIN FINAL_RATINGS)

\* C4: after a run over a schedule without a completed game, the rating map
\* equals the starting map: no rating changed and no team was added.
C4_NoCompletedGame ==
  (Processed /\ \A i \in DOMAIN SCHEDULE :
                  SCHEDULE[i].winnerScore.t # "num" \/ SCHEDULE[i].loserScore.t # "num")
    => FINAL_RATINGS = startingEloFile

C4_Witness ==
  /\ Processed
  /\ SCHEDULE # <<>>
  /\ \A i \in DOMAIN SCHEDULE :
       SCHEDULE[i].winnerScore.t # "num" \/ SCHEDULE[i].loserScore.t # "num"
  /\ startingEloFile # EmptyMap
  /\ \E i \in DOMAIN SCHEDULE : ~(Names(SCHEDULE[i]) \subseteq DOMAIN startingEloFile)
  /\ FINAL_RATINGS = startingEloFile

\* The iterations over a completed row that lacks a winner or a loser name
Nameless == {i \in DOMAIN trace : trace[i].game.winner = "" \/ trace[i].game.loser = ""}

\* C5: a completed row without a winner or a loser name is skipped: its
\* iteration leaves the rating map as it found it (no rating changed, no team
\* seeded), and every later row is still processed, from that same map.
C5_SkipsNamelessRow ==
  /\ \A i \in Nameless : trace[i].after = trace[i].before
  /\ \A i \in DOMAIN trace \ Nameless : trace[i].after # trace[i].before
  /\ \A i \in DOMAIN trace :
       trace[i].before = IF i = 1 THEN startingEloFile ELSE trace[i - 1].after
  /\ Processed =>
       /\ Len(trace) = Cardinality({i \in DOMAIN SCHEDULE :
                                      /\ SCHEDULE[i].winnerScore.t = "num"
                                      /\ SCHEDULE[i].loserScore.t = "num"})
       /\ FINAL_RATINGS = IF trace = <<>> THEN startingEloFile ELSE trace[Len(trace)].after

C5_Witness ==
  \E i \in Nameless, j \in DOMAIN trace \ Nameless :
    /\ i < j
    /\ trace[i].after = trace[i].before
    /\ trace[j].before = trace[i].before
    /\ trace[j].after # trace[j].before

\* ------------------------------------------------------------------------
\* Properties of the forecasts and of the records
\* ------------------------------------------------------------------------

\* The sum of the values of a function with a finite domain
RECURSIVE SumFn(_)
SumFn(f) ==
  IF DOMAIN f = {} THEN 0
  ELSE LET x == CHOOSE y \in DOMAIN f : TRUE
       IN  f[x] + SumFn([y \in DOMAIN f \ {x} |-> f[y]])

\* A game record one of whose scores is not a number
Unplayed(g) == g.winnerScore.t # "num" \/ g.loserScore.t # "num"

Forecasts == predictionOutput.predictions
ForecastOf(g) == \E j \in DOMAIN Forecasts : Forecasts[j].game = g
Rated(t) == t \in DOMAIN FINAL_RATINGS
Shown == recordsTable.shown
Rec(t) == recordsTable.records[t]

\* The output of a week forecast has a forecast of every game of that week
\* with a score that is not a number
WeekOutputCoversUnplayed ==
  \A i \in DOMAIN SCHEDULE :
    (Unplayed(SCHEDULE[i]) /\ ToString(SCHEDULE[i].week) = predictionOutput.arg)
      => ForecastOf(SCHEDULE[i])

\* The output of a team forecast has a forecast of every game of that team
\* with a score that is not a number
TeamOutputCoversUnplayed ==
  \A i \in DOMAIN SCHEDULE :
    (Unplayed(SCHEDULE[i]) /\ predictionOutput.arg \in Names(SCHEDULE[i]))
      => ForecastOf(SCHEDULE[i])

\* The number of sides team t takes in the games with a score that is not a
\* number and two rated sides
UnplayedSides(t) ==
  LET Sides(i) ==
        IF Unplayed(SCHEDULE[i]) /\ Rated(HomeTeam(SCHEDULE[i])) /\ Rated(AwayTeam(SCHEDULE[i]))
        THEN (IF HomeTeam(SCHEDULE[i]) = t THEN 1 ELSE 0)
               + (IF AwayTeam(SCHEDULE[i]) = t THEN 1 ELSE 0)
        ELSE 0
  IN  SumFn([i \in DOMAIN SCHEDULE |-> Sides(i)])

\* C2, as stated: a game with a score that is null or not finite is a future
\* game for the week forecast, for the team forecast and for the projected
\* records alike.
C2_OneCompletenessPredicate ==
  /\ [][(WeekOutputCoversUnplayed' \/ ~predictWeek)
          /\ (TeamOutputCoversUnplayed' \/ ~predictTeam)]_vars
  /\ [](Shown => \A t \in DOMAIN recordsTable.records :
                   Rec(t).projWins + Rec(t).projLosses = Real(UnplayedSides(t)))

\* The rating a forecast is to use for a team: its rating, or mean_elo
MeanOr(t) == IF Rated(t) THEN FINAL_RATINGS[t] ELSE ParamMeanElo(CONFIG)
PHomeMean(g) ==
  getWinProbability(MeanOr(HomeTeam(g)), MeanOr(AwayTeam(g)), ParamHFA(CONFIG))

\* Every forecast of the output gives the favored side's probability from
\* the two ratings, mean_elo standing for the rating of a team without one
ForecastsDefaultToMean ==
  \A j \in DOMAIN Forecasts :
    Forecasts[j].winProb =
      IF Forecasts[j].projectedWinner = Forecasts[j].homeTeam
      THEN PHomeMean(Forecasts[j].game)
      ELSE Real(1) - PHomeMean(Forecasts[j].game)

\* The projected wins of team t when every future game between two named
\* teams counts, mean_elo standing for the rating of a team without one
ProjWinsDefaulting(t) ==
  LET Share(i) ==
        IF IsFuture(SCHEDULE[i]) /\ SCHEDULE[i].winner # "" /\ SCHEDULE[i].loser # ""
        THEN (IF HomeTeam(SCHEDULE[i]) = t THEN PHomeMean(SCHEDULE[i]) ELSE 0)
               + (IF AwayTeam(SCHEDULE[i]) = t THEN Real(1) - PHomeMean(SCHEDULE[i]) ELSE 0)
        ELSE 0
  IN  SumFn([i \in DOMAIN SCHEDULE |-> Share(i)])

\* The future games that have a rated and an unrated side
HalfRated(g) == IsFuture(g) /\ (Rated(HomeTeam(g)) # Rated(AwayTeam(g)))

\* The number of sides team t takes in the future games with two rated sides
CountedSides(t) ==
  LET Sides(i) ==
        IF IsFuture(SCHEDULE[i]) /\ Rated(HomeTeam(SCHEDULE[i])) /\ Rated(AwayTeam(SCHEDULE[i]))
        THEN (IF HomeTeam(SCHEDULE[i]) = t THEN 1 ELSE 0)
               + (IF AwayTeam(SCHEDULE[i]) = t THEN 1 ELSE 0)
        ELSE 0
  IN  SumFn([i \in DOMAIN SCHEDULE |-> Sides(i)])

Counted(g) == IsFuture(g) /\ Rated(HomeTeam(g)) /\ Rated(AwayTeam(g))
PHome(g) ==
  getWinProbability(FINAL_RATINGS[HomeTeam(g)], FINAL_RATINGS[AwayTeam(g)], ParamHFA(CONFIG))

\* What the counted games add to the projected wins and losses of team t:
\* pHomeWin to the wins and 1 - pHomeWin to the losses of the home team, and
\* the reverse for the away team
ProjWinsCounted(t) ==
  LET Share(i) ==
        IF Counted(SCHEDULE[i])
        THEN (IF HomeTeam(SCHEDULE[i]) = t THEN PHome(SCHEDULE[i]) ELSE 0)
               + (IF AwayTeam(SCHEDULE[i]) = t THEN Real(1) - PHome(SCHEDULE[i]) ELSE 0)
        ELSE 0
  IN  SumFn([i \in DOMAIN SCHEDULE |-> Share(i)])
ProjLossesCounted(t) ==
  LET Share(i) ==
        IF Counted(SCHEDULE[i])
        THEN (IF HomeTeam(SCHEDULE[i]) = t THEN Real(1) - PHome(SCHEDULE[i]) ELSE 0)
               + (IF AwayTeam(SCHEDULE[i]) = t THEN PHome(SCHEDULE[i]) ELSE 0)
        ELSE 0
  IN  SumFn([i \in DOMAIN SCHEDULE |-> Share(i)])

\* The number of counted games, and of those team t takes part in
CountedGames == Cardinality({i \in DOMAIN SCHEDULE : Counted(SCHEDULE[i])})
CountedGamesOf(t) ==
  Cardinality({i \in DOMAIN SCHEDULE :
                 Counted(SCHEDULE[i]) /\ t \in {HomeTeam(SCHEDULE[i]), AwayTeam(SCHEDULE[i])}})

TotalProjWins == SumFn([t \in DOMAIN recordsTable.records |-> Rec(t).projWins])

C8_ForecastsKeepRatings ==
  [][FINAL_RATINGS' = FINAL_RATINGS
       \/ ~(predictWeek \/ predictTeam \/ generateRecordsTable)]_vars

C8_Witness ==
  /\ Processed
  /\ FINAL_RATINGS = FinalRatings(startingEloFile, trace)
  /\ \E j \in DOMAIN Forecasts :
       ~Rated(Forecasts[j].homeTeam) \/ ~Rated(Forecasts[j].awayTeam)

\* C9, as stated: every forecast of a future game has a margin of at least 0
\* and a win probability of at least 0.5.
C9_FavoredSide ==
  \A j \in DOMAIN Forecasts :
    /\ Forecasts[j].margin >= 0
    /\ 2 * Forecasts[j].winProb >= Scale

\* Text that is not a number: Number(text) is NaN
NotANumber(text) == StrToNumber(text) = NaN

\* C10, as stated: score text that cannot be parsed as a number loads as a
\* null score, and its game is not a completed game.
C10_UnparseableIsNull ==
  Processed =>
    \A i \in DOMAIN scheduleFile :
      /\ NotANumber(scheduleFile[i].winnerScore) => SCHEDULE[i].winnerScore = NULL
      /\ NotANumber(scheduleFile[i].loserScore) => SCHEDULE[i].loserScore = NULL
      /\ (NotANumber(scheduleFile[i].winnerScore) \/ NotANumber(scheduleFile[i].loserScore))
           => \A k \in DOMAIN trace : trace[k].game # SCHEDULE[i]

\* ------------------------------------------------------------------------
\* Properties of the fold
\* ------------------------------------------------------------------------

\* C13: a run leaves its inputs as it loaded them: the starting map has the
\* same teams and ratings, and the schedule has the same game records in the
\* same order (the sort by week is applied to the separate list of completed
\* games).
C13_InputsUntouched ==
  Processed =>
    /\ startingElo = startingEloFile
    /\ SCHEDULE = loadCSV(scheduleFile)

C13_Witness ==
  /\ Processed
  /\ startingElo = startingEloFile
  /\ SCHEDULE = loadCSV(scheduleFile)
  /\ startingElo # EmptyMap
  /\ \E t \in DOMAIN startingElo : FINAL_RATINGS[t] # startingElo[t]
  /\ Len(trace) = Len(SCHEDULE)
  /\ \E i \in DOMAIN trace : trace[i].game # SCHEDULE[i]

\* The rows of SCHEDULE with two scores that are numbers, in schedule order
PlayedRows ==
  LET Played(g) == g.winnerScore.t = "num" /\ g.loserScore.t = "num"
  IN  SelectSeq(SCHEDULE, Played)

\* The rating map iteration i starts from: what the iterations before it made
\* of the starting map
FoldedBefore(i) == IF i = 1 THEN startingEloFile ELSE trace[i - 1].after

\* The rating of team t in map m, mean_elo when it has none
PriorIn(m, t) == IF t \in DOMAIN m THEN m[t] ELSE ParamMeanElo(CONFIG)

\* C14: the fold takes the completed games by week, earliest first, games of
\* one week in schedule order, and the prior ratings of each game are the
\* ratings the games before it in that order have left.
C14_FoldOrder ==
  Processed =>
    /\ Len(trace) = Len(PlayedRows)
    /\ \E perm \in [DOMAIN trace -> DOMAIN trace] :
         /\ \A i, j \in DOMAIN trace : i # j => perm[i] # perm[j]
         /\ \A i \in DOMAIN trace : trace[i].game = PlayedRows[perm[i]]
         /\ \A i, j \in DOMAIN trace :
              i < j => /\ trace[i].game.week <= trace[j].game.week
                       /\ trace[i].game.week = trace[j].game.week => perm[i] < perm[j]
    /\ \A i \in Updates :
         /\ trace[i].locals.winnerPrior = PriorIn(FoldedBefore(i), trace[i].game.winner)
         /\ trace[i].locals.loserPrior = PriorIn(FoldedBefore(i), trace[i].game.loser)

C14_Witness ==
  /\ Processed
  /\ Len(trace) = 2
  /\ trace[1].game = PlayedRows[2]
  /\ trace[1].game.week < trace[2].game.week
  /\ Updates = {1, 2}
  /\ trace[2].game.winner \in DOMAIN trace[1].after
  /\ trace[2].locals.winnerPrior = trace[1].after[trace[2].game.winner]
  /\ trace[2].locals.winnerPrior # PriorIn(startingEloFile, trace[2].game.winner)

\* The first iteration that updates ratings in a game of team t
FirstGameOf(t) ==
  LET of == {i \in Updates : t \in {trace[i].game.winner, trace[i].game.loser}}
  IN  IF of = {} THEN 0 ELSE CHOOSE i \in of : \A k \in of : i <= k

\* The prior rating iteration i read for team t
PriorOf(i, t) ==
  IF t = trace[i].game.winner THEN trace[i].locals.winnerPrior
                              ELSE trace[i].locals.loserPrior

\* C15: a team without a starting rating enters the map at its first
\* processed completed game, with mean_elo as its prior there, and is in no
\* map before; a team that has a rating is read at that rating, never set
\* back to mean_elo; no iteration removes a team or touches the rating of a
\* team that is not in its game.
C15_SeedAtFirstGame ==
  /\ \A i \in DOMAIN trace :
       /\ DOMAIN trace[i].before \subseteq DOMAIN trace[i].after
       /\ \A t \in DOMAIN trace[i].before :
            (trace[i].skipped \/ t \notin {trace[i].game.winner, trace[i].game.loser})
              => trace[i].after[t] = trace[i].before[t]
  /\ \A i \in Updates :
       /\ DOMAIN trace[i].after =
            DOMAIN trace[i].before \cup {trace[i].game.winner, trace[i].game.loser}
       /\ \A t \in {trace[i].game.winner, trace[i].game.loser} :
            /\ t \in DOMAIN trace[i].before => PriorOf(i, t) = trace[i].before[t]
            /\ t \notin DOMAIN trace[i].before =>
                 /\ PriorOf(i, t) = ParamMeanElo(CONFIG)
                 /\ i = FirstGameOf(t)
                 /\ t \notin DOMAIN startingEloFile

C15_Witness ==
  \E i, j \in Updates :
    /\ i < j
    /\ \E t \in {trace[i].game.winner, trace[i].game.loser} :
         /\ t \notin DOMAIN trace[i].before
         /\ PriorOf(i, t) = ParamMeanElo(CONFIG)
         /\ t \in {trace[j].game.winner, trace[j].game.loser}
         /\ PriorOf(j, t) = trace[i].after[t]
         /\ PriorOf(j, t) # ParamMeanElo(CONFIG)
    /\ \E u \in DOMAIN startingEloFile :
         /\ u \in {trace[i].game.winner, trace[i].game.loser}
         /\ PriorOf(i, u) = startingEloFile[u]
         /\ PriorOf(i, u) # ParamMeanElo(CONFIG)

\* The largest week among the rows of SCHEDULE with two numeric scores, 0
\* when there is none
LastPlayedWeek ==
  IF PlayedRows = <<>> THEN 0
  ELSE CHOOSE w \in {PlayedRows[i].week : i \in DOMAIN PlayedRows} :
         \A i \in DOMAIN PlayedRows : PlayedRows[i].week <= w

\* C16: weeksCompleted is the largest week among the games whose two scores
\* are numbers, rows the loop later skips included, and 0 when there is no
\* such game; every game the loop takes has a week of at most weeksCompleted,
\* and every game's recency weight is computed from that one value.
C16_WeeksCompleted ==
  Processed =>
    /\ status.weeksCompleted = LastPlayedWeek
    /\ \A i \in DOMAIN trace : trace[i].game.week <= status.weeksCompleted
    /\ \A i \in Updates :
         trace[i].locals.wkWeight =
           Min(Real(1), Exp(-(ParamLambda(CONFIG) * (status.weeksCompleted - trace[i].game.week))))

C16_Witness ==
  /\ Processed
  /\ status.weeksCompleted = 12
  /\ \E i \in Nameless : trace[i].game.week = 12
  /\ \E i \in Updates : trace[i].game.week < 12 /\ trace[i].locals.wkWeight < Real(1)
  /\ \A i \in Updates : trace[i].game.week < 12

\* No game has two numeric scores: weeksCompleted is 0
C16_WitnessNone ==
  /\ Processed
  /\ SCHEDULE # <<>>
  /\ PlayedRows = <<>>
  /\ status.weeksCompleted = 0

\* The age of the game of iteration i: the weeks between it and the most
\* recent completed week
Age(i) == status.weeksCompleted - trace[i].game.week

\* C17, as stated: a game whose age is half_life_weeks has a recency weight
\* of one half.
C17_HalfAtHalfLife ==
  \A i \in Updates :
    Real(Age(i)) = ParamHalfLife(CONFIG) => 2 * trace[i].locals.wkWeight = Real(1)

\* C17: the recency weight is 1 for a game of the most recent completed
\* week, above 0 and at most 1 for every game, and never larger for an older
\* game than for a newer one; at an age of half_life_weeks it is one half to
\* within two units of the last place.
C17_RecencyWeight ==
  /\ \A i \in Updates :
       /\ Age(i) = 0 => trace[i].locals.wkWeight = Real(1)
       /\ trace[i].locals.wkWeight > 0
       /\ trace[i].locals.wkWeight <= Real(1)
       /\ Real(Age(i)) = ParamHalfLife(CONFIG) =>
            Abs(2 * trace[i].locals.wkWeight - Real(1)) <= 4
  /\ \A i, j \in Updates :
       Age(i) >= Age(j) => trace[i].locals.wkWeight <= trace[j].locals.wkWeight

C17_Witness ==
  /\ Processed
  /\ \E i, j \in Updates :
       /\ Real(Age(i)) = ParamHalfLife(CONFIG)
       /\ 2 * trace[i].locals.wkWeight # Real(1)
       /\ Abs(2 * trace[i].locals.wkWeight - Real(1)) <= 4
       /\ Age(j) = 0
       /\ trace[j].locals.wkWeight = Real(1)
       /\ trace[i].locals.wkWeight < trace[j].locals.wkWeight

\* The rating gap of iteration i: the distance of the two prior ratings
Gap(i) == Abs(trace[i].locals.winnerPrior - trace[i].locals.loserPrior)

\* C18: K' is K + mov * (2.2 / (gap * 0.001 + 2.2)) * weekWeight; it is above
\* K and at most K + mov, is K + mov exactly in a game of the most recent
\* completed week between teams of equal prior ratings, and for the same mov
\* and weekWeight it is smaller for a larger gap.
C18_KPrime ==
  /\ \A i \in Updates :
       /\ trace[i].locals.kPrime =
            ParamK(CONFIG)
              + Mul(Mul(trace[i].locals.mov,
                        Div(Lit(22, 10), Mul(Gap(i), Lit(1, 1000)) + Lit(22, 10))),
                    trace[i].locals.wkWeight)
       /\ trace[i].locals.kPrime > ParamK(CONFIG)
       /\ trace[i].locals.kPrime <= ParamK(CONFIG) + trace[i].locals.mov
       /\ trace[i].locals.kPrime = ParamK(CONFIG) + trace[i].locals.mov
            <=> (Gap(i) = 0 /\ Age(i) = 0)
       /\ computeKprime(ParamK(CONFIG), trace[i].locals.mov, Gap(i) + Real(50),
                        trace[i].locals.wkWeight) < trace[i].locals.kPrime
  /\ \A i, j \in Updates :
       (/\ trace[i].locals.mov = trace[j].locals.mov
        /\ trace[i].locals.wkWeight = trace[j].locals.wkWeight
        /\ Gap(i) < Gap(j)) => trace[j].locals.kPrime < trace[i].locals.kPrime

C18_Witness ==
  /\ Processed
  /\ \E i, j \in Updates :
       /\ Gap(i) = 0 /\ Age(i) = 0
       /\ trace[i].locals.kPrime = ParamK(CONFIG) + trace[i].locals.mov
       /\ Gap(j) > 0 /\ Age(j) = 0
       /\ trace[j].locals.mov = trace[i].locals.mov
       /\ trace[j].locals.kPrime < trace[i].locals.kPrime
       /\ trace[j].locals.kPrime > ParamK(CONFIG)

\* An older game between teams of equal prior ratings: K' is below K + mov
C18_WitnessOlder ==
  /\ Processed
  /\ \E i \in Updates :
       /\ Gap(i) = 0 /\ Age(i) > 0
       /\ trace[i].locals.kPrime > ParamK(CONFIG)
       /\ trace[i].locals.kPrime < ParamK(CONFIG) + trace[i].locals.mov

\* The winner's score minus the loser's score in the game of iteration i
ScoreDiff(i) == trace[i].game.winnerScore.v - trace[i].game.loserScore.v

\* C19: the margin of victory of a folded game is at least 1; it is the
\* winner's score minus the loser's score when that is 1 or more, and 1 when
\* the scores are tied or the winner's score is the lower one.
C19_MarginOfVictory ==
  \A i \in Updates :
    /\ trace[i].locals.mov >= Real(1)
    /\ ScoreDiff(i) >= Real(1) => trace[i].locals.mov = ScoreDiff(i)
    /\ ScoreDiff(i) <= 0 => trace[i].locals.mov = Real(1)

C19_Witness ==
  /\ Processed
  /\ \E i, j \in Updates :
       /\ ScoreDiff(i) = Real(14) /\ trace[i].locals.mov = Real(14)
       /\ ScoreDiff(j) < 0 /\ trace[j].locals.mov = Real(1)

\* A tie, and a win by one point: the margin is 1 in both
C19_WitnessTie ==
  /\ Processed
  /\ \E i \in Updates : ScoreDiff(i) = 0 /\ trace[i].locals.mov = Real(1)

C19_WitnessByOne ==
  /\ Processed
  /\ \E i \in Updates : ScoreDiff(i) = Real(1) /\ trace[i].locals.mov = Real(1)

\* ------------------------------------------------------------------------
\* Properties of the win probability
\* ------------------------------------------------------------------------

\* The ratings forecast f is made from, and the home team's probability with
\* the two sides exchanged and the home-field advantage negated
HomeElo(f) == MeanOr(f.homeTeam)
AwayElo(f) == MeanOr(f.awayTeam)
PSwapped(f) == getWinProbability(AwayElo(f), HomeElo(f), -ParamHFA(CONFIG))

\* The two ratings are within 2000 points of each other
Moderate(f) == Abs(HomeElo(f) - AwayElo(f)) <= Real(2000)

\* The forecasts of the output are made from FINAL_RATINGS and CONFIG
Fresh ==
  \A j \in DOMAIN Forecasts :
    Forecasts[j].pHomeWin =
      getWinProbability(HomeElo(Forecasts[j]), AwayElo(Forecasts[j]), ParamHFA(CONFIG))

SymmetricExactly ==
  \A j \in DOMAIN Forecasts :
    Moderate(Forecasts[j]) => Forecasts[j].pHomeWin + PSwapped(Forecasts[j]) = Real(1)

SymmetricRounded ==
  \A j \in DOMAIN Forecasts :
    Moderate(Forecasts[j]) =>
      Abs(Forecasts[j].pHomeWin + PSwapped(Forecasts[j]) - Real(1)) <= 2

\* C11, as stated: the home team's win probability of every forecast and the
\* win probability with the two ratings exchanged and the home-field
\* advantage negated add up to 1.
C11_SymmetryExact ==
  [][SymmetricExactly' \/ ~(predictWeek \/ predictTeam)]_vars

\* C11: the home team's win probability of every forecast and the win
\* probability with the two ratings exchanged and the home-field advantage
\* negated add up to 1 to within two units of the last place.
C11_SymmetryRounded ==
  [][SymmetricRounded' \/ ~(predictWeek \/ predictTeam)]_vars

C11_Witness ==
  /\ Fresh
  /\ ParamHFA(CONFIG) # 0
  /\ \E j \in DOMAIN Forecasts :
       /\ Moderate(Forecasts[j])
       /\ HomeElo(Forecasts[j]) # AwayElo(Forecasts[j])
       /\ Forecasts[j].pHomeWin + PSwapped(Forecasts[j]) # Real(1)
       /\ Abs(Forecasts[j].pHomeWin + PSwapped(Forecasts[j]) - Real(1)) <= 2

\* The two ratings are within 1000 points of each other
Close(f) == Abs(HomeElo(f) - AwayElo(f)) <= Real(1000)

\* Of two forecasts with the same away rating the one with the higher home
\* rating has the higher home probability, of two with the same home rating
\* the one with the higher away rating has the lower, and every home
\* probability is above 0 and below 1
StrictlyMonotone ==
  /\ \A j, k \in DOMAIN Forecasts :
       /\ (AwayElo(Forecasts[j]) = AwayElo(Forecasts[k])
             /\ HomeElo(Forecasts[j]) < HomeElo(Forecasts[k]))
            => Forecasts[j].pHomeWin < Forecasts[k].pHomeWin
       /\ (HomeElo(Forecasts[j]) = HomeElo(Forecasts[k])
             /\ AwayElo(Forecasts[j]) < AwayElo(Forecasts[k]))
            => Forecasts[j].pHomeWin > Forecasts[k].pHomeWin
  /\ \A j \in DOMAIN Forecasts :
       Forecasts[j].pHomeWin > 0 /\ Forecasts[j].pHomeWin < Real(1)

\* The same with "not lower", "not higher" and "from 0 to 1", and strictly
\* where the ratings are within 1000 points of each other
MonotoneAndStrictWhenClose ==
  /\ \A j, k \in DOMAIN Forecasts :
       /\ (AwayElo(Forecasts[j]) = AwayElo(Forecasts[k])
             /\ HomeElo(Forecasts[j]) < HomeElo(Forecasts[k]))
            => /\ Forecasts[j].pHomeWin <= Forecasts[k].pHomeWin
               /\ (Close(Forecasts[j]) /\ Close(Forecasts[k]))
                    => Forecasts[j].pHomeWin < Forecasts[k].pHomeWin
       /\ (HomeElo(Forecasts[j]) = HomeElo(Forecasts[k])
             /\ AwayElo(Forecasts[j]) < AwayElo(Forecasts[k]))
            => /\ Forecasts[j].pHomeWin >= Forecasts[k].pHomeWin
               /\ (Close(Forecasts[j]) /\ Close(Forecasts[k]))
                    => Forecasts[j].pHomeWin > Forecasts[k].pHomeWin
  /\ \A j \in DOMAIN Forecasts :
       /\ Forecasts[j].pHomeWin >= 0 /\ Forecasts[j].pHomeWin <= Real(1)
       /\ Close(Forecasts[j]) =>
            (Forecasts[j].pHomeWin > 0 /\ Forecasts[j].pHomeWin < Real(1))

\* C12, as stated: the home team's win probability is strictly increasing
\* in the home rating, strictly decreasing in the away rating, and strictly
\* between 0 and 1, whatever the ratings.
C12_StrictEverywhere ==
  [][StrictlyMonotone' \/ ~(predictWeek \/ predictTeam)]_vars

\* C12: the home team's win probability is non-decreasing in the home
\* rating, non-increasing in the away rating and between 0 and 1 inclusive;
\* between ratings within 1000 points of each other it is strictly
\* increasing, strictly decreasing and strictly between 0 and 1.
C12_MonotoneStrictWhenClose ==
  [][MonotoneAndStrictWhenClose' \/ ~(predictWeek \/ predictTeam)]_vars

C12_Witness ==
  /\ Fresh
  /\ \E j, k \in DOMAIN Forecasts :
       /\ Close(Forecasts[j]) /\ Close(Forecasts[k])
       /\ AwayElo(Forecasts[j]) = AwayElo(Forecasts[k])
       /\ HomeElo(Forecasts[j]) < HomeElo(Forecasts[k])
       /\ HomeElo(Forecasts[k]) < AwayElo(Forecasts[k])
       /\ Forecasts[j].pHomeWin < Forecasts[k].pHomeWin
       /\ Forecasts[j].pHomeWin > 0

\* Two home ratings far above the away rating: both probabilities are 1
C12_WitnessSaturated ==
  /\ Fresh
  /\ \E j, k \in DOMAIN Forecasts :
       /\ AwayElo(Forecasts[j]) = AwayElo(Forecasts[k])
       /\ HomeElo(Forecasts[j]) < HomeElo(Forecasts[k])
       /\ Forecasts[j].pHomeWin = Real(1)
       /\ Forecasts[k].pHomeWin = Real(1)

\* One home rating against two away ratings
C12_WitnessAway ==
  /\ Fresh
  /\ \E j, k \in DOMAIN Forecasts :
       /\ Close(Forecasts[j]) /\ Close(Forecasts[k])
       /\ HomeElo(Forecasts[j]) = HomeElo(Forecasts[k])
       /\ AwayElo(Forecasts[j]) < AwayElo(Forecasts[k])
       /\ Forecasts[j].pHomeWin > Forecasts[k].pHomeWin

\* ------------------------------------------------------------------------
\* The sides of a forecast
\* ------------------------------------------------------------------------

\* Forecast f names the sides of its game, favors the home team exactly when
\* pHomeWin is above one half, and reports the favored side's probability
SidesAndFavorite(f) ==
  /\ f.homeTeam = (IF f.game.winnerIsAway THEN f.game.loser ELSE f.game.winner)
  /\ f.awayTeam = (IF f.game.winnerIsAway THEN f.game.winner ELSE f.game.loser)
  /\ 2 * f.pHomeWin > Real(1) => (f.projectedWinner = f.homeTeam /\ f.winProb = f.pHomeWin)
  /\ 2 * f.pHomeWin <= Real(1) =>
       (f.projectedWinner = f.awayTeam /\ f.winProb = Real(1) - f.pHomeWin)
  /\ 2 * f.pHomeWin = Real(1) => (2 * f.winProb = Real(1) /\ f.margin = 0)

\* C20, as stated: in every forecast the home team is the loser of the
\* record when winnerIsAway is set and the winner otherwise, the away team is
\* the other one; the home team is favored exactly when pHomeWin is above one
\* half, the away team otherwise (at exactly one half: the away team, with
\* winProb one half and margin 0); winProb is pHomeWin when the home team is
\* favored and 1 - pHomeWin otherwise.
C20_SidesAndFavorite ==
  \A j \in DOMAIN Forecasts : SidesAndFavorite(Forecasts[j])

\* The same for the forecasts of games between two different teams
SidesAndFavoriteOfDistinct ==
  \A j \in DOMAIN Forecasts :
    Forecasts[j].homeTeam # Forecasts[j].awayTeam => SidesAndFavorite(Forecasts[j])

\* A forecast at exactly one half: the away team at winProb one half, margin 0
EvenForecast ==
  \E j \in DOMAIN Forecasts :
    /\ 2 * Forecasts[j].pHomeWin = Real(1)
    /\ Forecasts[j].projectedWinner = Forecasts[j].awayTeam
    /\ Forecasts[j].homeTeam # Forecasts[j].awayTeam
    /\ 2 * Forecasts[j].winProb = Real(1)
    /\ Forecasts[j].margin = 0

\* ------------------------------------------------------------------------
\* Properties of a whole run
\* ------------------------------------------------------------------------

\* The teams the fold has entered: in the final map and not in the starting
\* map
SeededTeams == DOMAIN FINAL_RATINGS \ DOMAIN startingEloFile

\* Every folded game is between two different teams
DistinctSides == \A i \in Updates : trace[i].game.winner # trace[i].game.loser

CloseGame(i) == Gap(i) <= Real(1000)

\* The folded games between two different teams
DistinctUpdates == {i \in Updates : trace[i].game.winner # trace[i].game.loser}

\* C22, as stated: every folded game between two different teams raises the
\* stored rating of its winner and lowers the stored rating of its loser,
\* with a delta above 0.
C22_StrictlyMoves ==
  \A i \in DistinctUpdates :
    /\ trace[i].locals.delta > 0
    /\ trace[i].after[trace[i].game.winner] > trace[i].locals.winnerPrior
    /\ trace[i].after[trace[i].game.loser] < trace[i].locals.loserPrior

\* C22: every folded game between two different teams has a delta of 0 or
\* more, never lowers the stored rating of its winner and never raises that
\* of its loser; between ratings within 1000 points of each other the delta
\* is above 0, the winner rises and the loser falls.
C22_MovesWhenClose ==
  \A i \in DistinctUpdates :
    /\ trace[i].locals.delta >= 0
    /\ trace[i].after[trace[i].game.winner] >= trace[i].locals.winnerPrior
    /\ trace[i].after[trace[i].game.loser] <= trace[i].locals.loserPrior
    /\ CloseGame(i) =>
         /\ trace[i].locals.delta > 0
         /\ trace[i].after[trace[i].game.winner] > trace[i].locals.winnerPrior
         /\ trace[i].after[trace[i].game.loser] < trace[i].locals.loserPrior

C22_Witness ==
  /\ Processed
  /\ \E i \in DistinctUpdates :
       /\ CloseGame(i)
       /\ ParamK(CONFIG) >= 0
       /\ trace[i].locals.winnerPrior < trace[i].locals.loserPrior
       /\ trace[i].locals.delta > 0
       /\ FINAL_RATINGS[trace[i].game.winner] > trace[i].locals.winnerPrior
       /\ FINAL_RATINGS[trace[i].game.loser] < trace[i].locals.loserPrior

\* A game won by a team rated far above the other: the delta is 0
C22_WitnessMismatch ==
  /\ Processed
  /\ \E i \in DistinctUpdates :
       /\ trace[i].locals.E = Real(1)
       /\ trace[i].locals.delta = 0
       /\ trace[i].after = trace[i].before

\* SCHEDULE with the rows at positions i and i + 1 exchanged
Exchanged(i) ==
  [k \in DOMAIN SCHEDULE |->
     IF k = i THEN SCHEDULE[i + 1] ELSE IF k = i + 1 THEN SCHEDULE[i] ELSE SCHEDULE[k]]

\* Two completed games of one week with a team in common
OrderMatters(g, h) ==
  /\ IsCompleted(g) /\ IsCompleted(h)
  /\ g.week = h.week
  /\ {g.winner, g.loser} \cap {h.winner, h.loser} # {}

\* The final ratings of a run on the loaded inputs with the schedule rows
\* at positions i and i + 1 exchanged
RatingsExchanged(i) == ComputeRatings(startingEloFile, CONFIG, Exchanged(i)).ratings

C23_WitnessWeeks ==
  /\ Processed
  /\ Len(SCHEDULE) = 2
  /\ Updates = {1, 2}
  /\ SCHEDULE[1].week > SCHEDULE[2].week
  /\ {SCHEDULE[1].winner, SCHEDULE[1].loser} = {SCHEDULE[2].winner, SCHEDULE[2].loser}
  /\ RatingsExchanged(1) = FINAL_RATINGS

\* Two games of one week with a team in common whose exchange changes the
\* final ratings
C23_WitnessOrderMatters ==
  /\ Processed
  /\ Len(SCHEDULE) = 2
  /\ OrderMatters(SCHEDULE[1], SCHEDULE[2])
  /\ RatingsExchanged(1) # FINAL_RATINGS

\* The probability a forecast from the two prior ratings of iteration i
\* gives to the home team of its game
PHomeOfGame(i) ==
  IF trace[i].game.winnerIsAway
  THEN getWinProbability(trace[i].locals.loserPrior, trace[i].locals.winnerPrior,
                         ParamHFA(CONFIG))
  ELSE getWinProbability(trace[i].locals.winnerPrior, trace[i].locals.loserPrior,
                         ParamHFA(CONFIG))

\* The probability that forecast gives to the winner of the game
PWinnerOfGame(i) ==
  IF trace[i].game.winnerIsAway THEN Real(1) - PHomeOfGame(i) ELSE PHomeOfGame(i)

\* C24, as stated: the expected probability E of every folded game is the
\* probability a forecast from the same two ratings gives to the winner's
\* side: pHomeWin for a home winner, 1 - pHomeWin for an away winner.
C24_SameProbability ==
  \A i \in Updates : trace[i].locals.E = PWinnerOfGame(i)

\* C24: the expected probability E of a folded game won by the home team is
\* the pHomeWin of a forecast from the same two ratings; that of a game won
\* by the away team is 1 - pHomeWin to within two units of the last place.
C24_SameProbabilityRounded ==
  \A i \in Updates :
    /\ ~trace[i].game.winnerIsAway => trace[i].locals.E = PHomeOfGame(i)
    /\ trace[i].game.winnerIsAway => Abs(trace[i].locals.E - PWinnerOfGame(i)) <= 2

C24_Witness ==
  /\ Processed
  /\ ParamHFA(CONFIG) # 0
  /\ \E i, j \in Updates :
       /\ ~trace[i].game.winnerIsAway
       /\ trace[i].locals.E = PHomeOfGame(i)
       /\ trace[j].game.winnerIsAway
       /\ trace[j].locals.E # PWinnerOfGame(j)
       /\ Abs(trace[j].locals.E - PWinnerOfGame(j)) <= 2

\* ------------------------------------------------------------------------
\* C25: a failing load leaves the globals alone
\* ------------------------------------------------------------------------

\* The forecasts a handler would show for the globals as they are
ForecastsShown ==
  IF CONFIG = NULL THEN <<>>
  ELSE [w \in 1..MaxWeek |->
          Predictions(WeekFutureGames(SCHEDULE, w), FINAL_RATINGS, CONFIG)]

\* The globals are those of a run that succeeded, or those of the page as
\* it was loaded
OfSuccessfulRunOrInitial ==
  \/ /\ FINAL_RATINGS = EmptyMap
     /\ SCHEDULE = <<>>
     /\ CONFIG = Config(NULL, NULL, NULL, NULL)
  \/ /\ CONFIG # NULL
     /\ FINAL_RATINGS = ComputeRatings(startingEloFile, CONFIG, SCHEDULE).ratings

C25_WitnessInitial ==
  /\ status.kind = "error"
  /\ FINAL_RATINGS = EmptyMap
  /\ SCHEDULE = <<>>
  /\ CONFIG = Config(NULL, NULL, NULL, NULL)
  /\ predictionOutput.kind = "noWeek"

\* ------------------------------------------------------------------------
\* C26: invocations of runEloCalculation that overlap
\* ------------------------------------------------------------------------

\* FINAL_RATINGS is the fold of the completed games of the current SCHEDULE
\* under the current CONFIG
SameInvocation ==
  /\ CONFIG # NULL
  /\ FINAL_RATINGS = ComputeRatings(startingEloFile, CONFIG, SCHEDULE).ratings
  /\ trace = ComputeRatings(startingEloFile, CONFIG, SCHEDULE).trace

\* No run has assigned a global yet
AsLoaded ==
  /\ FINAL_RATINGS = EmptyMap
  /\ SCHEDULE = <<>>
  /\ CONFIG = Config(NULL, NULL, NULL, NULL)

C26_Mixed ==
  /\ CONFIG = NULL
  /\ FINAL_RATINGS # EmptyMap
  /\ SCHEDULE # <<>>
  /\ FINAL_RATINGS #
       ComputeRatings(startingEloFile, Config(NULL, NULL, NULL, NULL), SCHEDULE).ratings
  /\ WeekFutureGames(SCHEDULE, 2) # <<>>

\* Overlapping invocations alone do not mix the globals: as long as no
\* invocation loaded null for its config, the three globals are of one
\* invocation
C26_SameInvocationUnlessNull == CONFIG # NULL => (AsLoaded \/ SameInvocation)

\* The invocation that resumes last determines the three globals (and it
\* need not be the one started last)
C26_LastResumedDetermines ==
  [][\/ SameInvocation'
     \/ CONFIG' = NULL
     \/ ~runEloCalculationResumes]_vars

\* Two invocations were awaiting their loads, and the globals are of one of
\* them while the files have moved on
C26_WitnessOverlap ==
  /\ status.kind = "processed"
  /\ SameInvocation
  /\ BagCardinality(inflight) = MaxInFlight - 1
  /\ SCHEDULE # loadCSV(scheduleFile)

====
